---- MODULE Spec2Model ----
(***************************************************************************)
(* Model of check4duplicates.py: one run of Check4Duplicates.run() over a  *)
(* fixed file system.  The file system (the reference file, what lies at   *)
(* each supplied directory path, the tags on the reference file) and the   *)
(* command line are chosen in Init; the actions are the steps of run().    *)
(*                                                                         *)
(* Modelling assumptions, stated once:                                     *)
(*  - the file system does not change during the run;                      *)
(*  - os.walk(directory) is its flattened list of regular files, in walk   *)
(*    order; every entry can be stat-ed and read;                          *)
(*  - macos_tags.remove_all / macos_tags.add succeed;                      *)
(*  - file contents are byte sequences, a file's size is their length.     *)
(***************************************************************************)
EXTENDS Integers, Sequences, FiniteSets, TLC

\* ---- bounds ----
\* longest list of -d options on the command line
MaxDirs == 2
\* most candidate files in the supplied directories together
MaxFiles == 3

\* ---- values ----
Bytes == {0, 1}
\* the file contents the model draws from: empty, two one-byte files
Contents == {<<>>} \cup {<<b>> : b \in Bytes}

\* Python's None / a list, for args.directory (action="append", no default)
None == [none |-> TRUE, val |-> <<>>]
Some(v) == [none |-> FALSE, val |-> v]

\* exit status of a process that has not exited
Running == -1

\* a directory entry: the reference file itself, or another regular file
SelfEntry == [self |-> TRUE, data |-> <<>>]
OtherEntry(c) == [self |-> FALSE, data |-> c]

\* what lies at a supplied directory path
NoDir == [isdir |-> FALSE, files |-> <<>>]
Dir(fl) == [isdir |-> TRUE, files |-> fl]

\* what lies at the reference path
RefStates ==
    {[kind |-> "missing", data |-> <<>>], [kind |-> "dir", data |-> <<>>]}
        \cup {[kind |-> "file", data |-> c] : c \in Contents}

\* tags already on the reference file before the run
InitialTags == {{}, {"Duplicate"}, {"Unique"}}

VARIABLES
    argv,           \* the command line: [directory, verbose]
    refFile,        \* file system: what lies at reference_file
    fs,             \* file system: what lies at each supplied directory path
    tags0,          \* file system: the tags on the reference file before the run
    tags,           \* file system: the tags on the reference file
    pc,             \* position in run()
    directories,    \* self.directories
    verbose,        \* self.verbose
    ref_size,       \* self.ref_size
    d,              \* index of `directory` in self.directories
    f,              \* index of `file` in the walk of the current directory
    exit_code,      \* status of the process, Running until it exits
    trace           \* the observable operations so far, in order

vars == <<argv, refFile, fs, tags0, tags, pc, directories, verbose, ref_size, d, f,
          exit_code, trace>>

env == <<argv, refFile, fs, tags0>>

\* an observable operation
Ev(op, arg, di, fi) == [op |-> op, arg |-> arg, d |-> di, f |-> fi]

\* ---- the file systems and command lines of Init ----
Entries(withSelf) ==
    {OtherEntry(c) : c \in Contents} \cup (IF withSelf THEN {SelfEntry} ELSE {})

FileLists(n, withSelf) ==
    UNION {[1..m -> Entries(withSelf)] : m \in 0..n}

RECURSIVE DirLists(_, _, _)
\* the lists of n directory states holding at most n files together
DirLists(n, k, withSelf) ==
    IF n = 0 THEN {<<>>}
    ELSE UNION {{<<ds>> \o rest : rest \in DirLists(n - 1, k - Len(ds.files), withSelf)} :
                    ds \in {NoDir} \cup {Dir(fl) : fl \in FileLists(k, withSelf)}}

\* ---- library functions ----
\* os.path.isfile(reference_file)
isfile == refFile.kind = "file"

\* os.stat(reference_file).st_size
RefStatSize == Len(refFile.data)

\* the bytes of a directory entry
DataOf(e) == IF e.self THEN refFile.data ELSE e.data

\* os.stat(file).st_size
StatSize(e) == Len(DataOf(e))

RECURSIVE DoCmp(_, _)
\* filecmp._do_cmp: read both files and compare them byte for byte
DoCmp(a, b) ==
    IF a = <<>> \/ b = <<>> THEN a = <<>> /\ b = <<>>
    ELSE Head(a) = Head(b) /\ DoCmp(Tail(a), Tail(b))

\* mutant of isdir: the check of line 112 left out
isdir_unchecked(dir) == TRUE

\* os.path.isdir(directory)
isdir(dir) == fs[dir].isdir

\* mutant of cmp: shallow=True semantics, equal sizes taken for equal files
cmp_shallow(e) == Len(refFile.data) = Len(DataOf(e))

\* mutant of cmp: the reference file itself is never a match
cmp_not_self(e) == ~e.self /\ DataOf(e) = refFile.data

\* filecmp.cmp(reference_file, file, shallow=False)
cmp(e) ==
    IF Len(refFile.data) # Len(DataOf(e)) THEN FALSE
    ELSE DoCmp(refFile.data, DataOf(e))

\* ---- state after construction ----
Init ==
    /\ refFile \in RefStates
    /\ \E n \in 0..MaxDirs :
          /\ fs \in DirLists(n, MaxFiles, refFile.kind = "file")
          /\ \E v \in BOOLEAN :
                argv = [directory |-> IF n = 0 THEN None ELSE Some([i \in 1..n |-> i]),
                        verbose |-> v]
    /\ tags0 \in (IF refFile.kind = "missing" THEN {{}} ELSE InitialTags)
    /\ tags = tags0
    /\ pc = "parse_args"
    /\ directories = None
    /\ verbose = FALSE
    /\ ref_size = 0
    /\ d = 0
    /\ f = 0
    /\ exit_code = Running
    /\ trace = <<>>

\* sys.exit(code), after the operations evs
Exit(code, evs) ==
    /\ pc' = "done"
    /\ exit_code' = code
    /\ trace' = trace \o evs \o <<Ev("exit", "", code, 0)>>

\* ---- run(), line 106: parse_args ----
ParseArgs ==
    /\ pc = "parse_args"
    /\ directories' = argv.directory
    /\ verbose' = argv.verbose
    /\ pc' = "validate_args"
    /\ UNCHANGED <<env, tags, ref_size, d, f, exit_code, trace>>

\* mutant of validate_args: the test for an empty reference file left out
validate_args_no_empty ==
    IF directories.none THEN "TypeError"
    ELSE IF Len(directories.val) = 0 THEN "no directory"
    ELSE IF ~isfile THEN "does not exist"
    ELSE "ok"

\* ---- validate_args, lines 84-95: which check stops the run, if any ----
validate_args ==
    IF directories.none THEN "TypeError"    \* len(None) raises
    ELSE IF Len(directories.val) = 0 THEN "no directory"
    ELSE IF ~isfile THEN "does not exist"
    ELSE IF RefStatSize = 0 THEN "is empty"
    ELSE "ok"

\* ---- run(), line 107: validate_args ----
ValidateArgs ==
    /\ pc = "validate_args"
    /\ ref_size' = IF validate_args \in {"is empty", "ok"} THEN RefStatSize ELSE ref_size
    /\ CASE validate_args = "TypeError" ->
                \* the uncaught exception ends the process with a traceback
                \* and status 1
                Exit(1, <<Ev("raise", "TypeError", 0, 0)>>)
         [] validate_args = "no directory" ->
                Exit(2, <<Ev("print_help", "", 0, 0)>>)
         [] validate_args \in {"does not exist", "is empty"} ->
                Exit(2, <<Ev("print", validate_args, 0, 0)>>)
         [] OTHER ->
                /\ pc' = "remove_all"
                /\ UNCHANGED <<exit_code, trace>>
    /\ UNCHANGED <<env, tags, directories, verbose, d, f>>

\* mutant of RemoveAll: the tags are not cleared
RemoveAll_skipped ==
    /\ pc = "remove_all"
    /\ pc' = "restat"
    /\ UNCHANGED <<env, tags, directories, verbose, ref_size, d, f, exit_code, trace>>

\* ---- run(), line 108: macos_tags.remove_all ----
RemoveAll ==
    /\ pc = "remove_all"
    /\ tags' = {}
    /\ trace' = Append(trace, Ev("remove_all", "", 0, 0))
    /\ pc' = "restat"
    /\ UNCHANGED <<env, directories, verbose, ref_size, d, f, exit_code>>

\* ---- run(), line 109: the size is read again ----
ReStat ==
    /\ pc = "restat"
    /\ ref_size' = RefStatSize
    /\ d' = 1
    /\ pc' = "for_directory"
    /\ UNCHANGED <<env, tags, directories, verbose, f, exit_code, trace>>

\* ---- run(), lines 111-114: the next directory, and its isdir check ----
ForDirectory ==
    /\ pc = "for_directory"
    /\ d <= Len(directories.val)
    /\ LET dir == directories.val[d]
           isdirEv == Ev("isdir", "", dir, 0)
       IN  IF ~isdir(dir)
           THEN /\ Exit(1, <<isdirEv, Ev("print", "Directory does not exist", dir, 0)>>)
                /\ UNCHANGED f
           ELSE /\ trace' = Append(trace, isdirEv)
                /\ f' = 1
                /\ pc' = "for_file"
                /\ UNCHANGED exit_code
    /\ UNCHANGED <<env, tags, directories, verbose, ref_size, d>>

\* mutant of SameSize: every candidate goes to the content comparison
SameSize_any(file) == TRUE

\* ---- run(), line 119: the size test ----
SameSize(file) == StatSize(file) = ref_size

\* mutant of OnMatch: the verbose flag is ignored
OnMatch_silent(dir, fi) == <<Ev("add", "Duplicate", 0, 0)>>

\* ---- run(), lines 121-124: the operations on a match ----
OnMatch(dir, fi) ==
    <<Ev("add", "Duplicate", 0, 0)>>
        \o (IF verbose THEN <<Ev("print", "is identical to", dir, fi)>> ELSE <<>>)

\* mutant of ForFile: no sys.exit(1) after a match, the walk goes on
ForFile_continue ==
    /\ pc = "for_file"
    /\ LET dir == directories.val[d]
           files == fs[dir].files
       IN  IF f > Len(files)
           THEN /\ d' = d + 1
                /\ pc' = "for_directory"
                /\ UNCHANGED <<tags, f, exit_code, trace>>
           ELSE LET file == files[f]
                    statEv == Ev("stat", "", dir, f)
                    cmpEv == Ev("cmp", "", dir, f)
                IN  /\ f' = f + 1
                    /\ UNCHANGED <<pc, d, exit_code>>
                    /\ IF ~SameSize(file)
                       THEN trace' = Append(trace, statEv) /\ UNCHANGED tags
                       ELSE IF ~cmp(file)
                       THEN trace' = trace \o <<statEv, cmpEv>> /\ UNCHANGED tags
                       ELSE /\ tags' = tags \cup {"Duplicate"}
                            /\ trace' = trace \o <<statEv, cmpEv>> \o OnMatch(dir, f)
    /\ UNCHANGED <<env, directories, verbose, ref_size>>

\* ---- run(), lines 115-125: one file of the walk ----
ForFile ==
    /\ pc = "for_file"
    /\ LET dir == directories.val[d]
           files == fs[dir].files
       IN  IF f > Len(files)
           THEN \* the walk of this directory is over
                /\ d' = d + 1
                /\ pc' = "for_directory"
                /\ UNCHANGED <<tags, f, exit_code, trace>>
           ELSE LET file == files[f]
                    statEv == Ev("stat", "", dir, f)
                    cmpEv == Ev("cmp", "", dir, f)
                IN  IF ~SameSize(file)
                    THEN /\ trace' = Append(trace, statEv)
                         /\ f' = f + 1
                         /\ UNCHANGED <<tags, pc, d, exit_code>>
                    ELSE IF ~cmp(file)
                    THEN /\ trace' = trace \o <<statEv, cmpEv>>
                         /\ f' = f + 1
                         /\ UNCHANGED <<tags, pc, d, exit_code>>
                    ELSE /\ tags' = tags \cup {"Duplicate"}
                         /\ Exit(1, <<statEv, cmpEv>> \o OnMatch(dir, f))
                         /\ UNCHANGED <<d, f>>
    /\ UNCHANGED <<env, directories, verbose, ref_size>>

\* ---- run(), lines 127-129: no directory held a match ----
MarkUnique ==
    /\ pc = "for_directory"
    /\ d > Len(directories.val)
    /\ tags' = tags \cup {"Unique"}
    /\ Exit(0, <<Ev("add", "Unique", 0, 0)>>)
    /\ UNCHANGED <<env, directories, verbose, ref_size, d, f>>

Next ==
    \/ ParseArgs
    \/ ValidateArgs
    \/ RemoveAll
    \/ ReStat
    \/ ForDirectory
    \/ ForFile
    \/ MarkUnique

Spec == Init /\ [][Next]_vars

\* the program keeps executing until it exits
FairSpec == Spec /\ WF_vars(Next)

(***************************************************************************)
(* Vocabulary of the claims                                                *)
(***************************************************************************)
Done == pc = "done"

\* at least one -d option on the command line
Supplied == ~argv.directory.none

\* the reference path holds a regular file of size > 0
NonEmptyRef == refFile.kind = "file" /\ refFile.data # <<>>

\* every supplied path is a directory
AllDirsExist == \A i \in DOMAIN fs : fs[i].isdir

\* the run got past validate_args
Validated ==
    /\ pc \notin {"parse_args", "validate_args"}
    /\ Supplied
    /\ NonEmptyRef

\* the candidates: <<directory, position in its walk>>
Candidates ==
    UNION {{<<i, j>> : j \in DOMAIN fs[i].files} : i \in DOMAIN fs}

EntryAt(p) == fs[p[1]].files[p[2]]

\* traversal order: directories as supplied, files in walk order
Before(p, q) == p[1] < q[1] \/ (p[1] = q[1] /\ p[2] < q[2])

\* byte-identical to the reference file
Identical(p) == DataOf(EntryAt(p)) = refFile.data

Matches == {p \in Candidates : Identical(p)}

FirstMatch == CHOOSE p \in Matches : \A q \in Matches : q = p \/ Before(p, q)

SameSizeCandidates ==
    {p \in Candidates : Len(DataOf(EntryAt(p))) = Len(refFile.data)}

\* positions of the trace holding an operation op
Ops(op) == {p \in DOMAIN trace : trace[p].op = op}

\* the candidate an operation of the trace is about
Of(p) == <<trace[p].d, trace[p].f>>

IsTagOp(e) == e.op \in {"remove_all", "add"}

\* the tag operations on the reference file, in order
TagOps == SelectSeq(trace, IsTagOp)

\* the operations after position p of the trace
After(p) == SubSeq(trace, p + 1, Len(trace))

\* the operations that touch a search directory or the tags
ScanOps == {"remove_all", "add", "isdir", "stat", "cmp"}

(***************************************************************************)
(* C1: for a non-empty reference file and a supplied list of existing      *)
(* directories none of whose files has the reference file's content, the   *)
(* run terminates with exit status 0 and its last tag operation is adding  *)
(* "Unique".                                                               *)
(***************************************************************************)
C1_Pre == Supplied /\ NonEmptyRef /\ AllDirsExist /\ Matches = {}

C2_Outcome ==
    /\ exit_code = 1
    /\ "Duplicate" \in tags
    /\ \E p \in Ops("add") : trace[p].arg = "Duplicate"
    /\ verbose =>
          \E p \in Ops("print") :
             trace[p] = Ev("print", "is identical to", FirstMatch[1], FirstMatch[2])

C2_Pre == Supplied /\ NonEmptyRef /\ AllDirsExist /\ Matches # {}

C3_Original ==
    (Done /\ ~Supplied) =>
        /\ exit_code = 2
        /\ Ops("print_help") # {}
        /\ TagOps = <<>>
        /\ tags = tags0

(***************************************************************************)
(* C4: with a directory supplied and a reference file that is missing, not *)
(* a regular file or empty, the run exits with status 2 before any search  *)
(* directory is examined and before any tag operation; the tags are as     *)
(* they were.                                                              *)
(***************************************************************************)
C4_Pre == Supplied /\ ~NonEmptyRef

C4_BadReferenceFile ==
    C4_Pre =>
        /\ \A p \in DOMAIN trace : trace[p].op \notin ScanOps
        /\ tags = tags0
        /\ Done => exit_code = 2
        /\ ~Done => ENABLED Next

\* a finished run of C4 on an empty, tagged reference file with an
\* identical (empty) file in an existing search directory
C4_Witness ==
    /\ C4_Pre
    /\ Done
    /\ refFile.kind = "file"
    /\ tags0 # {}
    /\ Matches # {}

(***************************************************************************)
(* C5: when the scan reaches a supplied directory that is no directory,    *)
(* the run stops there: the message, exit status 1, no later directory     *)
(* examined, no tag added, the tags left cleared.                          *)
(***************************************************************************)
\* the isdir checks of the trace that failed
FailedChecks == {p \in Ops("isdir") : ~fs[trace[p].d].isdir}

\* the first directory the scan cannot get past without a match, if it is
\* no directory
Reached(i) ==
    /\ Validated
    /\ i \in DOMAIN fs
    /\ ~fs[i].isdir
    /\ \A j \in 1..(i - 1) : fs[j].isdir
    /\ \A p \in Matches : p[1] > i

C6_Original ==
    (Done /\ Supplied /\ ~AllDirsExist) =>
        /\ exit_code # 0
        /\ tags = tags0

(***************************************************************************)
(* C7 as stated: the number of content comparisons of a run equals the     *)
(* number of candidates under the search directories that have the size of *)
(* the reference file (taken here for the runs that pass validation and    *)
(* whose directories all exist).                                           *)
(***************************************************************************)
C7_Original ==
    (Done /\ Supplied /\ NonEmptyRef /\ AllDirsExist) =>
        /\ \A p \in Ops("cmp") : Of(p) \in SameSizeCandidates
        /\ Cardinality(Ops("cmp")) = Cardinality(SameSizeCandidates)

(***************************************************************************)
(* C7 amended: a candidate of another size is never compared, and the      *)
(* number of comparisons equals the number of candidates VISITED (stat-ed  *)
(* before the scan stops) that have the size of the reference file; it is  *)
(* the number of all same-size candidates when the run ends with status 0. *)
(***************************************************************************)
C7_SizeShortCircuit ==
    /\ \A p \in Ops("cmp") :
          /\ Of(p) \in SameSizeCandidates
          /\ p > 1 /\ trace[p - 1] = Ev("stat", "", trace[p].d, trace[p].f)
    /\ \A p \in Ops("stat") :
          Of(p) \in SameSizeCandidates =>
              p < Len(trace) /\ trace[p + 1] = Ev("cmp", "", trace[p].d, trace[p].f)
    /\ Cardinality(Ops("cmp"))
          = Cardinality({p \in Ops("stat") : Of(p) \in SameSizeCandidates})
    /\ (Done /\ exit_code = 0) =>
          Cardinality(Ops("cmp")) = Cardinality(SameSizeCandidates)

\* a run of C7 that stopped at a match after skipping a file of another
\* size, leaving a same-size candidate unvisited
C7_Witness ==
    /\ Done
    /\ exit_code = 1
    /\ Cardinality(Ops("cmp")) < Cardinality(SameSizeCandidates)
    /\ \E p \in Ops("stat") : Of(p) \notin SameSizeCandidates

(***************************************************************************)
(* C8: in a run that passes validation the tags are cleared exactly once,  *)
(* before any tag is added, and at most one tag is added afterwards,       *)
(* "Duplicate" or "Unique", never both.                                    *)
(***************************************************************************)
C8_TagOrder ==
    Validated =>
        IF pc = "remove_all"
        THEN TagOps = <<>> /\ tags = tags0
        ELSE /\ Len(TagOps) \in {1, 2}
             /\ TagOps[1] = Ev("remove_all", "", 0, 0)
             /\ Len(TagOps) = 2 =>
                   /\ TagOps[2].op = "add"
                   /\ TagOps[2].arg \in {"Duplicate", "Unique"}
                   /\ tags = {TagOps[2].arg}
                   /\ Done
             /\ Len(TagOps) = 1 => tags = {}

\* a finished run of C8 that replaced a stale "Duplicate" by "Unique"
C8_Witness ==
    /\ Validated
    /\ Done
    /\ tags0 = {"Duplicate"}
    /\ tags = {"Unique"}
    /\ Len(TagOps) = 2

(***************************************************************************)
(* C9: once a candidate compares identical the scan stops: what follows in *)
(* the run is the "Duplicate" tag, the message if verbose, and exit 1; no  *)
(* later file or directory is touched.                                     *)
(***************************************************************************)
\* the comparisons of the trace that found identical content
Hits == {p \in Ops("cmp") : Identical(Of(p))}

C9_StopAtFirstMatch ==
    \A p \in Hits :
        /\ After(p) =
              <<Ev("add", "Duplicate", 0, 0)>>
                 \o (IF argv.verbose
                     THEN <<Ev("print", "is identical to", trace[p].d, trace[p].f)>>
                     ELSE <<>>)
                 \o <<Ev("exit", "", 1, 0)>>
        /\ Done
        /\ exit_code = 1
        /\ Of(p) = FirstMatch

\* a finished verbose run of C9 whose match has a later identical file in
\* its own directory and a later directory behind it
C9_Witness ==
    /\ Done
    /\ Hits # {}
    /\ argv.verbose
    /\ Len(fs) >= 2
    /\ FirstMatch[1] = 1
    /\ \E q \in Matches : q[1] = 1 /\ q[2] > FirstMatch[2]

(***************************************************************************)
(* C10: the reference file itself is a candidate: when it lies under a     *)
(* supplied directory the scan reaches, the run reports a duplicate (exit  *)
(* status 1, "Duplicate" tag), also when no other file has its content.    *)
(***************************************************************************)
IsSelf(p) == EntryAt(p).self

C10_Pre ==
    /\ Supplied
    /\ NonEmptyRef
    /\ \E p \in Candidates :
          /\ IsSelf(p)
          /\ \A j \in 1..(p[1] - 1) : fs[j].isdir

C10_SelfIsDuplicate ==
    (Done /\ C10_Pre) =>
        /\ exit_code = 1
        /\ "Duplicate" \in tags
        /\ TagOps[Len(TagOps)] = Ev("add", "Duplicate", 0, 0)

\* a finished run of C10 where only the reference file has its content
C10_Witness ==
    /\ Done
    /\ C10_Pre
    /\ \A p \in Matches : IsSelf(p)
    /\ \E p \in Hits : IsSelf(Of(p))

====
